---------------------------- MODULE Spec2Model ----------------------------
(***************************************************************************)
(* A model of cc2530prog (src/cc2530prog.c, src/gpio-sysfs.c): the debug   *)
(* port command protocol, the polling loops with their retry budgets, and  *)
(* the main programming run.                                               *)
(*                                                                         *)
(* Two specifications share the variables:                                 *)
(*   SpecCmd  one call of cc2530_do_cmd, one step per statement and one    *)
(*            step per iteration of the readiness poll;                    *)
(*   Spec     a run of main(), one step per call made by main,             *)
(*            cc2530_do_program and cc2530_program_flash; a poll loop of   *)
(*            these functions is one step, computed pass by pass.          *)
(*                                                                         *)
(* `unsigned int' values are kept as the 32-bit pattern read as a signed   *)
(* number (TLC's integers are 32 bits wide), so that 0 - 1 is the pattern  *)
(* 0xFFFFFFFF; the code only decrements these counters and tests them      *)
(* against zero.                                                           *)
(***************************************************************************)
EXTENDS Integers, Sequences, FiniteSets, TLC

(***************************************************************************)
(* Program constants.                                                      *)
(***************************************************************************)
DEFAULT_TIMEOUT == 1000
CMD_ERASE == 16
CMD_WR_CFG == 24
CMD_RD_CFG == 32
CMD_GET_PC == 40
CMD_RD_ST == 48
CMD_HALT == 64
CMD_RESUME == 72
CMD_DBG_INST == 80
CMD_STEP_INST == 88
CMD_GET_BM == 96
CMD_GET_CHIP == 104
CMD_BURST_WR == 128
CHIP_ERASE_BSY == 128
FCTL_BUSY == 128
CC2530_ID == 165
CH_DBG_TO_BUF0 == 2
CH_DBG_TO_BUF1 == 4
CH_BUF0_TO_FLASH == 8
CH_BUF1_TO_FLASH == 16
PROG_BLOCK_SIZE == 1024
EINVAL == 22

\* The three pins of gpios[] in the order of the array: RST, CCLK, DATA.
RST_GPIO == 0
CCLK_GPIO == 1
DATA_GPIO == 2
gpios == <<RST_GPIO, CCLK_GPIO, DATA_GPIO>>

\* `.in = -1' stored in a uint8_t field.
VARIABLE_IN == 255

\* The command table in the order of the source: name (a C string, here the
\* tuple of its characters), opcode, in, out.
cc2530_commands ==
  << [name |-> <<"e","r","a","s","e">>,
      id |-> CMD_ERASE,     in |-> 0, out |-> 1],
     [name |-> <<"w","r","i","t","e","_","c","o","n","f","i","g">>,
      id |-> CMD_WR_CFG,    in |-> 1, out |-> 1],
     [name |-> <<"r","e","a","d","_","c","o","n","f","i","g">>,
      id |-> CMD_RD_CFG,    in |-> 0, out |-> 1],
     [name |-> <<"g","e","t","_","p","c">>,
      id |-> CMD_GET_PC,    in |-> 0, out |-> 2],
     [name |-> <<"r","e","a","d","_","s","t","a","t","u","s">>,
      id |-> CMD_RD_ST,     in |-> 0, out |-> 1],
     [name |-> <<"h","a","l","t">>,
      id |-> CMD_HALT,      in |-> 0, out |-> 1],
     [name |-> <<"r","e","s","u","m","e">>,
      id |-> CMD_RESUME,    in |-> 0, out |-> 1],
     [name |-> <<"d","e","b","u","g","_","i","n","s","t">>,
      id |-> CMD_DBG_INST,  in |-> VARIABLE_IN, out |-> 1],
     [name |-> <<"s","t","e","p","_","i","n","s","t">>,
      id |-> CMD_STEP_INST, in |-> 0, out |-> 1],
     [name |-> <<"g","e","t","_","b","m">>,
      id |-> CMD_GET_BM,    in |-> 0, out |-> 1],
     [name |-> <<"g","e","t","_","c","h","i","p","_","i","d">>,
      id |-> CMD_GET_CHIP,  in |-> 0, out |-> 2],
     [name |-> <<"b","u","r","s","t","_","w","r","i","t","e">>,
      id |-> CMD_BURST_WR,  in |-> VARIABLE_IN, out |-> 1] >>

\* A null `struct cc2530_cmd *'.
NULL == [name |-> <<>>, id |-> 0, in |-> 0, out |-> 0]

(***************************************************************************)
(* C arithmetic.                                                           *)
(***************************************************************************)
\* `t--' on an unsigned int: the new value of t; 0 wraps to 0xFFFFFFFF.
PostDecU32(t) == IF t = -2147483647 - 1 THEN 2147483647 ELSE t - 1

\* `val && timeout--': the value of the condition and the counter after it.
\* The decrement is not evaluated when val is false.
AndPostDec(val, t) ==
  IF val THEN [cond |-> t # 0, timeout |-> PostDecU32(t)]
         ELSE [cond |-> FALSE, timeout |-> t]

\* A block count that is one too many for a whole number of blocks.
DivPlusOne(n, d) == (n \div d) + 1

DIV_ROUND_UP(n, d) == (n + d - 1) \div d

\* a | b on bytes, bit by bit.
BitOr(a, b) ==
  LET bit(x, k) == (x \div (2 ^ k)) % 2
      or[k \in 0..8] ==
        IF k = 8 THEN 0
        ELSE (IF bit(a, k) = 1 \/ bit(b, k) = 1 THEN 2 ^ k ELSE 0) + or[k + 1]
  IN  or[0]

LOBYTE(w) == w % 256
HIBYTE(w) == ((w % 65536) \div 256) % 256

\* do { read result; } while (<test of result> && timeout--);
\* One pass through the body and the condition after it, for a target whose
\* next s.k answers make the test true.  A loop already left stays as it is.
DoWhilePass(s) ==
  IF s.done THEN s
  ELSE LET c == AndPostDec(s.k > 0, s.timeout)
       IN  [k |-> IF s.k > 0 THEN s.k - 1 ELSE 0, timeout |-> c.timeout,
            result_bit |-> (s.k > 0), reads |-> s.reads + 1, done |-> ~c.cond]

\* m passes in a row, split in halves to keep the evaluation shallow.
RECURSIVE DoWhilePasses(_, _)
DoWhilePasses(s, m) ==
  IF m = 0 THEN s
  ELSE IF m = 1 THEN DoWhilePass(s)
  ELSE LET h == DoWhilePasses(s, m \div 2)
       IN  IF h.done THEN h ELSE DoWhilePasses(h, m - (m \div 2))

\* The loop run to its end: after k answers that make the test true the next
\* one makes it false, so k + 1 passes leave it at the latest.
DoWhile(k, t) ==
  DoWhilePasses([k |-> k, timeout |-> t, result_bit |-> FALSE, reads |-> 0,
                 done |-> FALSE], k + 1)


(***************************************************************************)
(* State.                                                                  *)
(***************************************************************************)
VARIABLES
  \* the static table cc2530_commands (its `in' fields are assigned by the
  \* memory access functions)
  commands,
  \* cc2530_do_cmd: position, argument and locals
  cmd_pc, cmd, timeout, val, ret,
  \* sysfs: the pins exported, and each pin's direction as last written
  gpio_exported, gpio_dir,
  \* what one call of cc2530_do_cmd has done on the wire: the opcode byte
  \* and the number of parameter bytes clocked out, the iterations of the
  \* readiness poll (8 clock pulses each), the response bytes clocked in,
  \* and whether the answer was copied to the caller's outbuf
  sent_opcode, sent_params, polls, answered, outbuf_set,
  \* whether a GPIO operation of that call has failed
  gpio_failed,
  \* send_byte and read_byte on a looped-back data line: the position, the
  \* byte sent, the levels of the data line at the rising clock edges, the
  \* level of the clock, its pulses in the routine that ran last, and the
  \* byte read
  bit_pc, byte, line, cclk, pulses, rx,
  \* main: position in main, cc2530_do_program and cc2530_program_flash
  pc,
  \* the command line and the firmware file: do_identify, command (the -c
  \* argument or NoCommand), do_list, firmware ("regular" or "missing"),
  \* fwsize, do_readback
  args,
  \* debug_enabled, and the target's side of it: in debug mode or not
  debug_enabled, session,
  \* main's ret and flash_size, the loop index of gpio_init and gpio_deinit,
  \* and the retry_cnt of main and of cc2530_do_program
  main_ret, flash_size, gpio_i, retry_cnt,
  \* cc2530_do_program and cc2530_program_flash: blocks, i, max_speed, wait,
  \* what the running poll loop tests of the `result' it read last (the
  \* busy bit set, or the clock not stable), the value
  \* cc2530_program_flash returned, num_bytes_ok
  blocks, i, max_speed, wait, result_bit, pf_ret, num_bytes_ok,
  \* the firmware cursor
  flash_ptr,
  \* what the run has done so far (not program state): chip_identify calls
  \* and whether the last one returned 0, write_config attempts and whether
  \* the last one was echoed, ERASE issued by cc2530_chip_erase, the DMA
  \* descriptors written, burst writes, a block after the first found idle
  \* at its first check, cc2530_leave_debug calls, and the first failure
  \* the run met
  id_attempts, ident_ok, dma_attempts, dma_acked, erase_issued,
  desc_written, bursts, idle_first, leave_calls, core_failed

cmdVars == <<cmd_pc, cmd, timeout, val, ret,
             sent_opcode, sent_params, polls, answered, outbuf_set,
             gpio_failed>>

bitVars == <<bit_pc, byte, line, cclk, pulses, rx>>

gpioVars == <<gpio_exported, gpio_dir>>

mainVars == <<pc, args, debug_enabled, session, main_ret, flash_size, gpio_i,
              retry_cnt>>

progVars == <<blocks, i, max_speed, wait, result_bit, pf_ret, num_bytes_ok,
              flash_ptr>>

histVars == <<id_attempts, ident_ok, dma_attempts, dma_acked, erase_issued,
              desc_written, bursts, idle_first, leave_calls,
              core_failed>>

\* What a step of one call of cc2530_do_cmd leaves alone.
runVars == <<mainVars, progVars, histVars>>

\* What a step of main leaves alone of cc2530_do_cmd's own state.
callVars == <<cmd_pc, cmd, val, ret, sent_opcode, sent_params, polls,
              answered, outbuf_set, gpio_failed, bitVars>>

vars == <<commands, gpioVars, cmdVars, bitVars, runVars>>

\* The index of debug_inst in the table.
DBG_INST_IDX == CHOOSE k \in 1..Len(cc2530_commands) :
                  cc2530_commands[k].id = CMD_DBG_INST

\* No -c argument.
NoCommand == <<"-">>

\* The run-level state while only cc2530_do_cmd is looked at: main has
\* initialised the pins and entered debug mode, and is not stepped.
RunIdle ==
  /\ pc = "call"
  /\ args = [do_identify |-> FALSE, command |-> NoCommand, do_list |-> FALSE,
             firmware |-> "regular", fwsize |-> 0, do_readback |-> FALSE,
             env |-> "any"]
  /\ debug_enabled = 1
  /\ session = "Active"
  /\ main_ret = 0
  /\ flash_size = 0
  /\ gpio_i = 0
  /\ retry_cnt = 3
  /\ blocks = 0
  /\ i = 0
  /\ max_speed = 1
  /\ wait = 0
  /\ result_bit = FALSE
  /\ pf_ret = 0
  /\ num_bytes_ok = 0
  /\ flash_ptr = 0
  /\ id_attempts = 0
  /\ ident_ok = FALSE
  /\ dma_attempts = 0
  /\ dma_acked = FALSE
  /\ erase_issued = FALSE
  /\ desc_written = FALSE
  /\ bursts = <<>>
  /\ idle_first = FALSE
  /\ leave_calls = 0
  /\ core_failed = "none"

(***************************************************************************)
(* cc2530_do_cmd, statement by statement.  The target decides the level of *)
(* the data line at every sample; gpio_set_direction (a write to sysfs)    *)
(* succeeds or fails.                                                      *)
(***************************************************************************)
CmdInit ==
  /\ cmd_pc = "idle"
  /\ cmd = NULL
  /\ timeout = 0
  /\ val \in BOOLEAN           \* `bool val;' is not initialised
  /\ ret = 0
  /\ sent_opcode = -1
  /\ sent_params = 0
  /\ polls = 0
  /\ answered = 0
  /\ outbuf_set = FALSE
  /\ gpio_failed = FALSE

\* send_byte and read_byte are not stepped.
BitIdle ==
  /\ bit_pc = "off"
  /\ byte = 0
  /\ line = <<>>
  /\ cclk = 0
  /\ pulses = 0
  /\ rx = 0

\* What write_file() returns to the gpio_* functions on failure.
GPIO_ERR == 0 - 1

\* How a write() to a sysfs file ends: the string is written, the write
\* fails with errno EBUSY, or the open or the write fails otherwise.
WriteOutcomes == {"written", "EBUSY", "error"}

\* write_file: `if (errno == EBUSY) ret = 0;' ... `return ret < 0 ? -1 : 0;'
write_file(o) == IF o = "error" THEN GPIO_ERR ELSE 0

\* gpio_set_direction(n, direction): what it returns, and the directions of
\* the pins after it (pin n's changes only when the string was written).
gpio_set_direction(dir, n, d, o) ==
  [ret |-> write_file(o),
   dir |-> IF o = "written" THEN [dir EXCEPT ![n] = d] ELSE dir]

\* The call: `timeout = DEFAULT_TIMEOUT', the null check, malloc and memset.
\* val is not initialised.  The call may follow burst writes, as the reads
\* of FCTL in cc2530_program_flash do.
do_cmd_call(c) ==
  /\ cmd_pc \in {"idle", "bw_done"}
  /\ cmd' = c
  /\ timeout' = DEFAULT_TIMEOUT
  /\ val' \in BOOLEAN
  /\ sent_opcode' = 0 - 1
  /\ sent_params' = 0
  /\ polls' = 0
  /\ answered' = 0
  /\ IF c = NULL
       THEN /\ ret' = 0 - 1
            /\ cmd_pc' = "done"
       ELSE /\ ret' = ret
            /\ cmd_pc' = "set_output"
  /\ gpio_failed' = FALSE
  /\ UNCHANGED <<runVars, bitVars, commands, gpioVars, outbuf_set>>

\* ret = gpio_set_direction(DATA_GPIO, GPIO_DIRECTION_OUT); if (ret) goto out_exit;
do_cmd_set_output ==
  /\ cmd_pc = "set_output"
  /\ \E o \in WriteOutcomes :
       LET r == gpio_set_direction(gpio_dir, DATA_GPIO, "out", o)
       IN  /\ gpio_failed' = (gpio_failed \/ r.ret # 0)
           /\ ret' = r.ret
           /\ gpio_dir' = r.dir
           /\ cmd_pc' = IF r.ret # 0 THEN "out_exit" ELSE "send"
  /\ UNCHANGED <<runVars, bitVars, commands, gpio_exported, cmd, timeout, val,
                 sent_opcode, sent_params, polls, answered, outbuf_set>>

\* An opcode byte without the count of instruction bytes.
OpcodeOnly(c) == c.id

\* The opcode byte: debug_inst carries the number of instruction bytes.
OpcodeByte(c) ==
  IF c.id = CMD_DBG_INST THEN BitOr(c.id, c.in) ELSE c.id

\* send_byte(opcode); for (bytes = 0; bytes < cmd->in; bytes++) send_byte(params[bytes]);
\* send_byte does not look at what gpio_set_value returns: the bytes are
\* clocked out whether or not a pin write failed.
do_cmd_send ==
  /\ cmd_pc = "send"
  /\ sent_opcode' = OpcodeByte(cmd)
  /\ sent_params' = cmd.in
  /\ \E ok \in BOOLEAN : gpio_failed' = (gpio_failed \/ ~ok)
  /\ cmd_pc' = "set_input"
  /\ UNCHANGED <<runVars, bitVars, commands, gpioVars, cmd, timeout, val, ret,
                 polls, answered, outbuf_set>>

\* ret = gpio_set_direction(DATA_GPIO, GPIO_DIRECTION_IN); if (ret) goto out_exit;
do_cmd_set_input ==
  /\ cmd_pc = "set_input"
  /\ \E o \in WriteOutcomes :
       LET r == gpio_set_direction(gpio_dir, DATA_GPIO, "in", o)
       IN  /\ gpio_failed' = (gpio_failed \/ r.ret # 0)
           /\ ret' = r.ret
           /\ gpio_dir' = r.dir
           /\ cmd_pc' = IF r.ret # 0 THEN "out_exit" ELSE "sample"
  /\ UNCHANGED <<runVars, bitVars, commands, gpio_exported, cmd, timeout, val,
                 sent_opcode, sent_params, polls, answered, outbuf_set>>

\* gpio_get_value(DATA_GPIO, &val); before the loop.  What it returns is
\* not looked at; when it fails val keeps the value it had.
do_cmd_sample ==
  /\ cmd_pc = "sample"
  /\ \E ok \in BOOLEAN :
       /\ gpio_failed' = (gpio_failed \/ ~ok)
       /\ IF ok THEN val' \in BOOLEAN ELSE val' = val
  /\ cmd_pc' = "poll"
  /\ UNCHANGED <<runVars, bitVars, commands, gpioVars, cmd, timeout, ret,
                 sent_opcode, sent_params, polls, answered, outbuf_set>>

\* while (val && timeout--) { 8 clock pulses; gpio_get_value(DATA_GPIO, &val); }
\* One step is one evaluation of the condition and, when it is true, one
\* pass through the body, whose pin operations may fail unnoticed.
do_cmd_poll ==
  /\ cmd_pc = "poll"
  /\ LET t == AndPostDec(val, timeout)
     IN  /\ timeout' = t.timeout
         /\ IF t.cond
              THEN /\ polls' = polls + 1
                   /\ \E ok \in BOOLEAN :
                        /\ gpio_failed' = (gpio_failed \/ ~ok)
                        /\ IF ok THEN val' \in BOOLEAN ELSE val' = val
                   /\ cmd_pc' = "poll"
              ELSE /\ polls' = polls
                   /\ val' = val
                   /\ gpio_failed' = gpio_failed
                   /\ cmd_pc' = "check"
  /\ UNCHANGED <<runVars, bitVars, commands, gpioVars, cmd, ret, sent_opcode,
                 sent_params, answered, outbuf_set>>

\* if (!timeout) { fprintf(stderr, "timed out ..."); goto out_exit; }
do_cmd_check ==
  /\ cmd_pc = "check"
  /\ cmd_pc' = IF timeout = 0 THEN "out_exit" ELSE "read"
  /\ UNCHANGED <<runVars, bitVars, commands, gpioVars, cmd, timeout, val, ret,
                 sent_opcode, sent_params, polls, answered, outbuf_set,
                 gpio_failed>>

\* for (bytes = 0; bytes < cmd->out; bytes++) read_byte(&answer[bytes]);
\* memcpy(outbuf, answer, cmd->out);
\* read_byte does not look at what gpio_set_value and gpio_get_value return.
do_cmd_read ==
  /\ cmd_pc = "read"
  /\ answered' = cmd.out
  /\ outbuf_set' = TRUE
  /\ \E ok \in BOOLEAN :
       gpio_failed' = (gpio_failed \/ (cmd.out > 0 /\ ~ok))
  /\ cmd_pc' = "out_exit"
  /\ UNCHANGED <<runVars, bitVars, commands, gpioVars, cmd, timeout, val, ret,
                 sent_opcode, sent_params, polls>>

\* out_exit: free(answer); return ret;
do_cmd_exit ==
  /\ cmd_pc = "out_exit"
  /\ cmd_pc' = "done"
  /\ UNCHANGED <<runVars, bitVars, commands, gpioVars, cmd, timeout, val, ret,
                 sent_opcode, sent_params, polls, answered, outbuf_set,
                 gpio_failed>>

\* The two bytes cc2530_burst_write sends before the payload.
BurstHeader ==
  <<BitOr(CMD_BURST_WR, HIBYTE(PROG_BLOCK_SIZE)), LOBYTE(PROG_BLOCK_SIZE)>>

\* What the programming loop has done to the target is kept, in order, in
\* bursts: arming the debug-to-buffer channel ch ("dbg_arm"), a burst write
\* whose payload starts at image offset first ("burst"), and arming the
\* buffer-to-flash channel ch followed by FCTL = 0x06 ("flash"); each with
\* the block index, the last with the busy flag of the last FCTL read.
\* cc2530_flash_verify adds the banks it selects ("bank").
Event(op, ch, first, hdr) ==
  [op |-> op, i |-> i, ch |-> ch, first |-> first, hdr |-> hdr,
   busy |-> (op = "flash" /\ result_bit)]

\* The calls of cc2530_burst_write that follow one another.
MaxBurstCalls == 2

(***************************************************************************)
(* cc2530_burst_write, statement by statement.  It does not go through     *)
(* cc2530_do_cmd; ret, timeout and val are its own locals.                 *)
(***************************************************************************)
\* What a step of cc2530_burst_write leaves alone.
bwStill ==
  <<commands, cmd, bitVars, pc, args, debug_enabled, session, main_ret,
    flash_size, gpio_i, retry_cnt, blocks, i, max_speed, wait, result_bit,
    pf_ret, num_bytes_ok, id_attempts, ident_ok, dma_attempts, dma_acked,
    erase_issued, desc_written, idle_first, leave_calls, core_failed>>

\* The call: `timeout = DEFAULT_TIMEOUT'; ret and val are not initialised.
\* cc2530_program_flash calls it once per block: a call follows a call.
burst_write_call ==
  /\ cmd_pc \in {"idle", "bw_done"}
  /\ Len(bursts) < MaxBurstCalls
  /\ timeout' = DEFAULT_TIMEOUT
  /\ polls' = 0
  /\ answered' = 0
  /\ val' \in BOOLEAN
  /\ cmd_pc' = "bw_set_output"
  /\ gpio_failed' = FALSE
  /\ UNCHANGED <<bwStill, gpioVars, ret, sent_opcode, sent_params, outbuf_set,
                 flash_ptr, bursts>>

\* ret = gpio_set_direction(DATA_GPIO, GPIO_DIRECTION_OUT); if (ret) return ret;
burst_write_set_output ==
  /\ cmd_pc = "bw_set_output"
  /\ \E o \in WriteOutcomes :
       LET r == gpio_set_direction(gpio_dir, DATA_GPIO, "out", o)
       IN  /\ gpio_failed' = (gpio_failed \/ r.ret # 0)
           /\ ret' = r.ret
           /\ gpio_dir' = r.dir
           /\ cmd_pc' = IF r.ret # 0 THEN "bw_done" ELSE "bw_send"
  /\ UNCHANGED <<bwStill, gpio_exported, timeout, val, sent_opcode,
                 sent_params, polls, answered, outbuf_set, flash_ptr, bursts>>

\* send_byte(CMD_BURST_WR | HIBYTE(PROG_BLOCK_SIZE));
\* send_byte(LOBYTE(PROG_BLOCK_SIZE));
\* for (i = 0; i < PROG_BLOCK_SIZE; i++) send_byte(get_next_flash_byte());
burst_write_send ==
  /\ cmd_pc = "bw_send"
  /\ sent_opcode' = BurstHeader[1]
  /\ sent_params' = (Len(BurstHeader) - 1) + PROG_BLOCK_SIZE
  /\ bursts' = Append(bursts, Event("burst", 0, flash_ptr, BurstHeader))
  /\ flash_ptr' = (flash_ptr + PROG_BLOCK_SIZE) % 65536
  /\ \E ok \in BOOLEAN : gpio_failed' = (gpio_failed \/ ~ok)
  /\ cmd_pc' = "bw_set_input"
  /\ UNCHANGED <<bwStill, gpioVars, timeout, val, ret, polls, answered,
                 outbuf_set>>

\* ret = gpio_set_direction(DATA_GPIO, GPIO_DIRECTION_IN); if (ret) return ret;
burst_write_set_input ==
  /\ cmd_pc = "bw_set_input"
  /\ \E o \in WriteOutcomes :
       LET r == gpio_set_direction(gpio_dir, DATA_GPIO, "in", o)
       IN  /\ gpio_failed' = (gpio_failed \/ r.ret # 0)
           /\ ret' = r.ret
           /\ gpio_dir' = r.dir
           /\ cmd_pc' = IF r.ret # 0 THEN "bw_done" ELSE "bw_sample"
  /\ UNCHANGED <<bwStill, gpio_exported, timeout, val, sent_opcode,
                 sent_params, polls, answered, outbuf_set, flash_ptr, bursts>>

\* gpio_get_value(DATA_GPIO, &val); before the loop.
burst_write_sample ==
  /\ cmd_pc = "bw_sample"
  /\ \E ok \in BOOLEAN :
       /\ gpio_failed' = (gpio_failed \/ ~ok)
       /\ IF ok THEN val' \in BOOLEAN ELSE val' = val
  /\ cmd_pc' = "bw_poll"
  /\ UNCHANGED <<bwStill, gpioVars, timeout, ret, sent_opcode, sent_params,
                 polls, answered, outbuf_set, flash_ptr, bursts>>

\* while (val && timeout--) { 8 clock pulses; gpio_get_value(DATA_GPIO, &val); }
\* One step is one evaluation of the condition and, when it is true, one
\* pass through the body.
burst_write_poll ==
  /\ cmd_pc = "bw_poll"
  /\ LET t == AndPostDec(val, timeout)
     IN  /\ timeout' = t.timeout
         /\ IF t.cond
              THEN /\ polls' = polls + 1
                   /\ \E ok \in BOOLEAN :
                        /\ gpio_failed' = (gpio_failed \/ ~ok)
                        /\ IF ok THEN val' \in BOOLEAN ELSE val' = val
                   /\ cmd_pc' = "bw_poll"
              ELSE /\ polls' = polls
                   /\ val' = val
                   /\ gpio_failed' = gpio_failed
                   /\ cmd_pc' = "bw_check"
  /\ UNCHANGED <<bwStill, gpioVars, ret, sent_opcode, sent_params, answered,
                 outbuf_set, flash_ptr, bursts>>

\* if (!timeout) { fprintf(stderr, "timed out ..."); return -1; }
burst_write_check ==
  /\ cmd_pc = "bw_check"
  /\ IF timeout = 0
       THEN /\ ret' = 0 - 1
            /\ cmd_pc' = "bw_done"
       ELSE /\ ret' = ret
            /\ cmd_pc' = "bw_read"
  /\ UNCHANGED <<bwStill, gpioVars, timeout, val, sent_opcode, sent_params,
                 polls, answered, outbuf_set, gpio_failed, flash_ptr, bursts>>

\* read_byte(&result); return 0;
burst_write_read ==
  /\ cmd_pc = "bw_read"
  /\ answered' = 1
  /\ \E ok \in BOOLEAN : gpio_failed' = (gpio_failed \/ ~ok)
  /\ ret' = 0
  /\ cmd_pc' = "bw_done"
  /\ UNCHANGED <<bwStill, gpioVars, timeout, val, sent_opcode, sent_params,
                 polls, outbuf_set, flash_ptr, bursts>>

\* The commands a caller passes: an entry of the table, with the `in' the
\* memory access functions give debug_inst, or no entry (an unknown name).
CmdArgs ==
  {commands[k] : k \in (1..Len(commands)) \ {DBG_INST_IDX}}
    \cup {[commands[DBG_INST_IDX] EXCEPT !.in = n] : n \in 0..15}
    \cup {NULL}

CmdNext ==
  \/ \E c \in CmdArgs : do_cmd_call(c)
  \/ do_cmd_set_output
  \/ do_cmd_send
  \/ do_cmd_set_input
  \/ do_cmd_sample
  \/ do_cmd_poll
  \/ do_cmd_check
  \/ do_cmd_read
  \/ do_cmd_exit
  \/ burst_write_call
  \/ burst_write_set_output
  \/ burst_write_send
  \/ burst_write_set_input
  \/ burst_write_sample
  \/ burst_write_poll
  \/ burst_write_check
  \/ burst_write_read

\* A call made after cc2530_gpio_init: the three pins are exported outputs.
InitCmd ==
  /\ commands = cc2530_commands
  /\ gpio_exported = {RST_GPIO, CCLK_GPIO, DATA_GPIO}
  /\ gpio_dir = [p \in {RST_GPIO, CCLK_GPIO, DATA_GPIO} |-> "out"]
  /\ CmdInit
  /\ BitIdle
  /\ RunIdle

SpecCmd == InitCmd /\ [][CmdNext]_vars


(***************************************************************************)
(* send_byte and read_byte, one pass of their loops per step, on a data    *)
(* line looped back: what read_byte samples after the n-th rising edge of  *)
(* the clock is what send_byte drove at its n-th rising edge.  The pins    *)
(* work.                                                                   *)
(***************************************************************************)
\* A bit-level step leaves everything else alone.
bitStill == <<commands, gpioVars, cmdVars, runVars>>

\* byte & (1 << k), as 0 or 1.
TestBit(b, k) == (b \div (2 ^ k)) % 2

\* The least-significant bit first.
lsb_first_i(n) == n

\* `for (i = 7; i >= 0; i--)' of send_byte: i in the pass after n passes.
send_byte_i(n) == 7 - n

\* `for (i = 7; i >= 0; i--)' of read_byte: i in the pass after n passes.
read_byte_i(n) == 7 - n

\* One pass of send_byte: the data pin is set to the bit, then
\* gpio_set_value(CCLK_GPIO, 1); gpio_set_value(CCLK_GPIO, 0);
send_byte_pass ==
  /\ bit_pc = "send_byte"
  /\ pulses < 8
  /\ LET d    == TestBit(byte, send_byte_i(pulses))
         up   == 1
         down == 0
     IN  /\ line' = Append(line, d)      \* the level at the edge cclk -> up
         /\ pulses' = pulses + (IF cclk # up THEN 1 ELSE 0)
         /\ cclk' = down
  /\ UNCHANGED <<bit_pc, byte, rx, bitStill>>

\* send_byte returns when i < 0.
send_byte_return ==
  /\ bit_pc = "send_byte"
  /\ pulses >= 8
  /\ bit_pc' = "sent"
  /\ UNCHANGED <<byte, line, cclk, pulses, rx, bitStill>>

\* read_byte is called: `*byte = 0;'
read_byte_call ==
  /\ bit_pc = "sent"
  /\ bit_pc' = "read_byte"
  /\ rx' = 0
  /\ pulses' = 0
  /\ UNCHANGED <<byte, line, cclk, bitStill>>

\* One pass of read_byte: gpio_set_value(CCLK_GPIO, 1);
\* gpio_get_value(DATA_GPIO, &val); if (val) *byte |= (1 << i);
\* gpio_set_value(CCLK_GPIO, 0);
read_byte_pass ==
  /\ bit_pc = "read_byte"
  /\ pulses < 8
  /\ LET up   == 1
         down == 0
         v    == line[pulses + 1] # 0
     IN  /\ rx' = IF v THEN BitOr(rx, 2 ^ read_byte_i(pulses)) ELSE rx
         /\ pulses' = pulses + (IF cclk # up THEN 1 ELSE 0)
         /\ cclk' = down
  /\ UNCHANGED <<bit_pc, byte, line, bitStill>>

\* read_byte returns when i < 0.
read_byte_return ==
  /\ bit_pc = "read_byte"
  /\ pulses >= 8
  /\ bit_pc' = "done"
  /\ UNCHANGED <<byte, line, cclk, pulses, rx, bitStill>>

BitsNext ==
  \/ send_byte_pass
  \/ send_byte_return
  \/ read_byte_call
  \/ read_byte_pass
  \/ read_byte_return

\* Every byte value; the clock is low between calls.
InitBits ==
  /\ commands = cc2530_commands
  /\ gpio_exported = {RST_GPIO, CCLK_GPIO, DATA_GPIO}
  /\ gpio_dir = [p \in {RST_GPIO, CCLK_GPIO, DATA_GPIO} |-> "out"]
  /\ CmdInit
  /\ RunIdle
  /\ bit_pc = "send_byte"
  /\ byte \in 0..255
  /\ line = <<>>
  /\ cclk = 0
  /\ pulses = 0
  /\ rx = 0

SpecBits == InitBits /\ [][BitsNext]_vars


(***************************************************************************)
(* The run of main(), one step per call.  A call that goes through         *)
(* cc2530_do_cmd returns non-zero exactly when one of its two              *)
(* gpio_set_direction calls failed (the only assignments to ret in         *)
(* cc2530_do_cmd); the bytes it hands back are the target's, or what the   *)
(* caller's buffer held when the answer was not read.  Each such step      *)
(* takes the failure of the GPIO backend and the bytes that matter to the  *)
(* caller as its inputs.                                                   *)
(***************************************************************************)

\* strncmp(a, b, n) == 0 for C strings a and b: the characters past the end
\* of a string are its terminating NUL.
CharAt(str, j) == IF j <= Len(str) THEN str[j] ELSE "NUL"

StrncmpEq(a, b, n) == \A j \in 1..n : CharAt(a, j) = CharAt(b, j)

\* A lookup that compares whole names.
find_cmd_by_whole_name(name) ==
  LET hits == {k \in 1..Len(commands) : commands[k].name = name}
  IN  IF hits = {} THEN 0 ELSE CHOOSE k \in hits : \A h \in hits : k <= h

\* find_cmd_by_name: the index of the first entry whose name starts with
\* `name' (the comparison runs over strlen(name) characters); 0 is NULL.
find_cmd_by_name(name) ==
  LET hits == {k \in 1..Len(commands) :
                 StrncmpEq(commands[k].name, name, Len(name))}
  IN  IF hits = {} THEN 0
      ELSE CHOOSE k \in hits : \A h \in hits : k <= h

\* x * 1024 in a 32-bit int (two's complement on overflow).
Mul1024(x) ==
  LET low  == x % 2097152
      sign == (x \div 2097152) % 2
  IN  IF sign = 1 THEN low * 1024 + (-2147483647 - 1) ELSE low * 1024

\* The flash-size switch of cc2530_chip_identify: codes 1..4 assign
\* *flash_size, any other code leaves it as it was.
FlashSizeKB(code, old) ==
  CASE code = 1 -> 32
    [] code = 2 -> 64
    [] code = 3 -> 128
    [] code = 4 -> 256
    [] OTHER -> old


\* The memory access functions as far as their callers see them: the return
\* value and the `in' they leave in the debug_inst entry of the table.
\* `io' is the cc2530_do_cmd call (1, 2, ...) that fails, 0 when none does.
SetIn(tbl, n) == [tbl EXCEPT ![DBG_INST_IDX].in = n]

\* cc2530_write_xdata_memory: three calls, with in = 3, 2, 1.
cc2530_write_xdata_memory(tbl, io) ==
  CASE io = 1 -> [ret |-> GPIO_ERR, commands |-> SetIn(tbl, 3)]
    [] io = 2 -> [ret |-> GPIO_ERR, commands |-> SetIn(tbl, 2)]
    [] io = 3 -> [ret |-> GPIO_ERR, commands |-> SetIn(tbl, 1)]
    [] OTHER  -> [ret |-> 0, commands |-> SetIn(tbl, 1)]

\* cc2530_read_xdata_memory: two calls, with in = 3, 1.
cc2530_read_xdata_memory(tbl, io) ==
  CASE io = 1 -> [ret |-> GPIO_ERR, commands |-> SetIn(tbl, 3)]
    [] io = 2 -> [ret |-> GPIO_ERR, commands |-> SetIn(tbl, 1)]
    [] OTHER  -> [ret |-> 0, commands |-> SetIn(tbl, 1)]

\* cc2530_chip_identify(cmd, &flash_size): its return value, *flash_size
\* and the command table after its calls of cc2530_read_xdata_memory.
\*   io    the call whose gpio_set_direction fails, or "ok"
\*   id    the first byte of the GET_CHIP_ID answer
\*   code  bits 6:4 of X_CHIPINFO0 as read
cc2530_chip_identify(tbl, old_size, io, id, code) ==
  LET rd(k) == cc2530_read_xdata_memory(tbl, k).commands
  IN  IF io \in {"set_direction", "get_chip_id"}
        THEN [ret |-> GPIO_ERR, flash_size |-> old_size, commands |-> tbl]
      ELSE IF id # CC2530_ID
        THEN [ret |-> 0 - EINVAL, flash_size |-> old_size, commands |-> tbl]
      ELSE IF io \in {"ext_addr", "chipinfo0"}
        THEN [ret |-> GPIO_ERR, flash_size |-> old_size, commands |-> rd(1)]
      ELSE IF io = "chipinfo1"
        THEN [ret |-> GPIO_ERR,
              flash_size |-> Mul1024(FlashSizeKB(code, old_size)),
              commands |-> rd(1)]
      ELSE [ret |-> 0, flash_size |-> Mul1024(FlashSizeKB(code, old_size)),
            commands |-> rd(0)]

\* cc2530_write_xdata_memory_block: one call with in = 3, then per byte
\* calls with in = 2, 1, 1.
cc2530_write_xdata_memory_block(tbl, io) ==
  CASE io = 1 -> [ret |-> GPIO_ERR, commands |-> SetIn(tbl, 3)]
    [] io = 2 -> [ret |-> GPIO_ERR, commands |-> SetIn(tbl, 2)]
    [] io = 3 -> [ret |-> GPIO_ERR, commands |-> SetIn(tbl, 1)]
    [] OTHER  -> [ret |-> 0, commands |-> SetIn(tbl, 1)]

\* A value returned through `uint8_t' (cc2530_program_flash).
ToU8(x) == x % 256

\* cc2530_enter_debug
EnterDebug ==
  /\ debug_enabled' = 1
  /\ session' = "Active"

\* A reset pulse that leaves the target in debug mode.
LeaveDebugLost ==
  /\ session' = session
  /\ leave_calls' = leave_calls + 1

\* cc2530_leave_debug
LeaveDebug ==
  /\ session' = "Disconnected"
  /\ leave_calls' = leave_calls + 1

\* The first failure is the one recorded.
Fail(what) == core_failed' = IF core_failed = "none" THEN what ELSE core_failed

(***************************************************************************)
(* Inputs of a run.                                                        *)
(***************************************************************************)
\* Firmware file sizes: empty, not a multiple of the block size, one block,
\* two blocks.
FirmwareSizes == {0, 1, PROG_BLOCK_SIZE, 2 * PROG_BLOCK_SIZE}

\* Image sizes programmed into an ideal target: two blocks, one block more
\* than 64 KiB, and the largest flash (256 KiB).
IdealFirmwareSizes ==
  {2 * PROG_BLOCK_SIZE, 65 * PROG_BLOCK_SIZE, 256 * PROG_BLOCK_SIZE}

\* -c arguments: every name of the table, prefixes of names (the empty
\* string among them), and strings that no name starts with.
OneShotQueries ==
  {cc2530_commands[k].name : k \in 1..Len(cc2530_commands)}
    \cup { <<>>, <<"g">>, <<"r","e","a","d">>, <<"g","e","t","_">>,
           <<"x">>, <<"h","a","l","t","s">>, <<"g","e","t","_","x">> }

\* What the target answers: the chip id byte and the flash-size code.
ChipIds == {CC2530_ID, 0, 255}

ChipInfoCodes == {0, 1, 2}

\* The flash-size codes of the ideal targets: 64 KiB and 256 KiB.
IdealInfoCodes == {2, 4}

\* The command lines, by the branch of main they take.
RunArgs ==
  LET none == [do_identify |-> FALSE, command |-> NoCommand, do_list |-> FALSE,
               firmware |-> "regular", fwsize |-> 0, do_readback |-> FALSE,
               env |-> "any"]
  IN  {[none EXCEPT !.do_identify = TRUE]}
        \cup {[none EXCEPT !.command = q] : q \in OneShotQueries}
        \cup {[none EXCEPT !.do_list = TRUE]}
        \cup {[none EXCEPT !.firmware = "missing"]}
        \cup {[none EXCEPT !.fwsize = n, !.do_readback = r] :
                n \in FirmwareSizes, r \in BOOLEAN}
        \cup {[none EXCEPT !.fwsize = n, !.do_readback = r, !.env = "ideal"] :
                n \in IdealFirmwareSizes, r \in BOOLEAN}

\* The set an input is drawn from: any of S, or, in a run whose
\* surroundings are "ideal" (no GPIO or file operation fails, the target is
\* a CC2530 that is ready at the first sample and idle at the first check),
\* the values of S that say so.
Env(S, ideal) == IF args.env = "ideal" THEN ideal ELSE S

\* How many answers in a row a target gives as busy (or clock not stable)
\* to one poll loop: none, one, one less than the retry budget, the budget,
\* and more than the budget.
BusyRuns == {0, 1, DEFAULT_TIMEOUT - 1, DEFAULT_TIMEOUT, DEFAULT_TIMEOUT + 1}

Init ==
  /\ commands = cc2530_commands
  /\ gpio_exported = {}
  /\ gpio_dir = [p \in {RST_GPIO, CCLK_GPIO, DATA_GPIO} |-> "in"]
  /\ cmd_pc = "idle"
  /\ cmd = NULL
  /\ timeout = 0
  /\ val = FALSE
  /\ ret = 0
  /\ sent_opcode = -1
  /\ sent_params = 0
  /\ polls = 0
  /\ answered = 0
  /\ outbuf_set = FALSE
  /\ gpio_failed = FALSE
  /\ BitIdle
  /\ pc = "gpio_init"
  /\ args \in RunArgs
  /\ debug_enabled = 0
  /\ session = "Disconnected"
  /\ main_ret = 0
  /\ flash_size = 0
  /\ gpio_i = 0
  /\ retry_cnt = 3
  /\ blocks = 0
  /\ i = 0
  /\ max_speed = 1
  /\ wait = 0
  /\ result_bit = FALSE
  /\ pf_ret = 0
  /\ num_bytes_ok = 0
  /\ flash_ptr = 0
  /\ id_attempts = 0
  /\ ident_ok = FALSE
  /\ dma_attempts = 0
  /\ dma_acked = FALSE
  /\ erase_issued = FALSE
  /\ desc_written = FALSE
  /\ bursts = <<>>
  /\ idle_first = FALSE
  /\ leave_calls = 0
  /\ core_failed = "none"

(***************************************************************************)
(* main                                                                    *)
(***************************************************************************)
\* cc2530_gpio_init: one pass of its loop.  A failure makes main return -1
\* at once.
gpio_init_step ==
  /\ pc = "gpio_init"
  /\ LET pin == gpios[gpio_i + 1]
     IN  \E io \in Env({"ok", "export", "set_direction"}, {"ok"}) :
           /\ gpio_exported' = IF io = "export" THEN gpio_exported
                               ELSE gpio_exported \cup {pin}
           /\ gpio_dir' = IF io = "ok" THEN [gpio_dir EXCEPT ![pin] = "out"]
                          ELSE gpio_dir
           /\ IF io = "ok"
                THEN /\ gpio_i' = gpio_i + 1
                     /\ pc' = IF gpio_i + 1 < Len(gpios) THEN "gpio_init"
                              ELSE "enter_debug"
                     /\ main_ret' = main_ret
                ELSE /\ gpio_i' = gpio_i
                     /\ pc' = "exited"
                     /\ main_ret' = 0 - 1
  /\ UNCHANGED <<commands, callVars, timeout, args, debug_enabled, session,
                 flash_size, retry_cnt, progVars, histVars>>

\* if (!debug_enabled) cc2530_enter_debug();
main_enter_debug ==
  /\ pc = "enter_debug"
  /\ IF debug_enabled = 0 THEN EnterDebug
                          ELSE UNCHANGED <<debug_enabled, session>>
  /\ pc' = "dispatch"
  /\ UNCHANGED <<commands, gpioVars, callVars, timeout, args, main_ret,
                 flash_size, gpio_i, retry_cnt, progVars, histVars>>

\* The branch main takes: -i, -c, -l, stat() of the firmware file.
main_dispatch ==
  /\ pc = "dispatch"
  /\ pc' = IF args.do_identify THEN "identify_only"
           ELSE IF args.command # NoCommand THEN "oneshot"
           ELSE IF args.do_list THEN "out"
           ELSE IF args.firmware # "regular" THEN "out"
           ELSE "id_loop"
  /\ UNCHANGED <<commands, gpioVars, callVars, timeout, args, debug_enabled,
                 session, main_ret, flash_size, gpio_i, retry_cnt, progVars,
                 histVars>>

IdentifyIo ==
  {"ok", "set_direction", "get_chip_id", "ext_addr", "chipinfo0", "chipinfo1"}

\* if (do_identify) { ret = cc2530_chip_identify(cmd, &flash_size); goto out; }
main_identify_only ==
  /\ pc = "identify_only"
  /\ \E io \in Env(IdentifyIo, {"ok"}), id \in Env(ChipIds, {CC2530_ID}),
                    code \in Env(ChipInfoCodes, IdealInfoCodes) :
       LET r == cc2530_chip_identify(commands, flash_size, io, id, code)
       IN  /\ main_ret' = r.ret
           /\ flash_size' = r.flash_size
           /\ commands' = r.commands
           /\ ident_ok' = (r.ret = 0)
           /\ IF r.ret # 0 THEN Fail("identify")
                           ELSE UNCHANGED core_failed
  /\ id_attempts' = id_attempts + 1
  /\ pc' = "out"
  /\ UNCHANGED <<gpioVars, callVars, timeout, args, debug_enabled,
                 session, gpio_i, retry_cnt, progVars, dma_attempts,
                 dma_acked, erase_issued, desc_written, bursts, idle_first, leave_calls>>

\* if (command) { cc2530_oneshot_command(cmd, command); goto out; }
\* cc2530_oneshot_command looks the name up (cmd) and issues the command.
\* The value it returns is not looked at.
main_oneshot ==
  /\ pc = "oneshot"
  /\ LET k == find_cmd_by_name(args.command)
     IN  /\ cmd' = IF k = 0 THEN NULL ELSE commands[k]
         /\ \E io \in Env({"ok", "fail"}, {"ok"}) :
              LET r == IF k = 0 \/ io = "fail" THEN 0 - 1 ELSE 0
              IN  IF r # 0 THEN Fail("oneshot") ELSE UNCHANGED core_failed
  /\ pc' = "out"
  /\ UNCHANGED <<commands, gpioVars, cmd_pc, val, ret, sent_opcode,
                 sent_params, polls, answered, outbuf_set, gpio_failed,
                 bitVars, timeout, args, debug_enabled, session, main_ret,
                 flash_size, gpio_i, retry_cnt, progVars, id_attempts,
                 ident_ok, dma_attempts, dma_acked, erase_issued, desc_written,
                 bursts, idle_first, leave_calls>>

\* while (retry_cnt--) { ret = cc2530_chip_identify(...); if (ret) continue; break; }
\* One step is one evaluation of the condition and, when it is true, one
\* pass through the body.
main_id_loop ==
  /\ pc = "id_loop"
  /\ retry_cnt' = PostDecU32(retry_cnt)
  /\ IF retry_cnt # 0
       THEN /\ \E io \in Env(IdentifyIo, {"ok"}), id \in Env(ChipIds, {CC2530_ID}),
                    code \in Env(ChipInfoCodes, IdealInfoCodes) :
                 LET r == cc2530_chip_identify(commands, flash_size, io, id, code)
                 IN  /\ main_ret' = r.ret
                     /\ flash_size' = r.flash_size
                     /\ commands' = r.commands
                     /\ ident_ok' = (r.ret = 0)
                     /\ pc' = IF r.ret # 0 THEN "id_loop" ELSE "id_check"
            /\ id_attempts' = id_attempts + 1
       ELSE /\ pc' = "id_check"
            /\ UNCHANGED <<main_ret, flash_size, ident_ok, id_attempts, commands>>
  /\ UNCHANGED <<gpioVars, callVars, timeout, args, debug_enabled,
                 session, gpio_i, progVars, dma_attempts, dma_acked,
                 erase_issued, desc_written, bursts, idle_first,
                 leave_calls, core_failed>>

\* if (!retry_cnt) { fprintf(stderr, "timeout identifying the chip\n"); goto out; }
main_id_check ==
  /\ pc = "id_check"
  /\ IF retry_cnt = 0
       THEN /\ Fail("identify")
            /\ pc' = "out"
       ELSE /\ UNCHANGED core_failed
            /\ pc' = "size_check"
  /\ UNCHANGED <<commands, gpioVars, callVars, timeout, args, debug_enabled,
                 session, main_ret, flash_size, gpio_i, retry_cnt, progVars,
                 id_attempts, ident_ok, dma_attempts, dma_acked, erase_issued,
                 desc_written, bursts, idle_first, leave_calls>>

\* if (fwsize > flash_size) { fprintf(stderr, "firmware file too big"); goto out; }
main_size_check ==
  /\ pc = "size_check"
  /\ IF args.fwsize > flash_size
       THEN /\ Fail("too_large")
            /\ pc' = "out"
       ELSE /\ UNCHANGED core_failed
            /\ pc' = "load"
  /\ UNCHANGED <<commands, gpioVars, callVars, timeout, args, debug_enabled,
                 session, main_ret, flash_size, gpio_i, retry_cnt, progVars,
                 id_attempts, ident_ok, dma_attempts, dma_acked, erase_issued,
                 desc_written, bursts, idle_first, leave_calls>>

\* open, malloc and read of the firmware file, then the call of
\* cc2530_do_program, whose locals are initialised here: timeout and
\* retry_cnt.  A failed open is not detected (`if (!f)') and shows as a
\* failed read.
main_load ==
  /\ pc = "load"
  /\ \E io \in Env({"ok", "malloc", "read"}, {"ok"}) :
       IF io = "ok"
         THEN /\ pc' = "dp_dma"
              /\ timeout' = DEFAULT_TIMEOUT
              /\ retry_cnt' = 3
              /\ UNCHANGED <<main_ret, core_failed>>
         ELSE /\ pc' = "out"
              /\ main_ret' = IF io = "malloc" THEN 0 - 1 ELSE main_ret
              /\ Fail("load")
              /\ UNCHANGED <<timeout, retry_cnt>>
  /\ UNCHANGED <<commands, gpioVars, callVars, args, debug_enabled, session,
                 flash_size, gpio_i, progVars, id_attempts, ident_ok,
                 dma_attempts, dma_acked, erase_issued, desc_written, bursts,
                 idle_first, leave_calls>>

\* out: cc2530_leave_debug();
main_out ==
  /\ pc = "out"
  /\ LeaveDebug
  /\ gpio_i' = 0
  /\ pc' = "gpio_deinit"
  /\ UNCHANGED <<commands, gpioVars, callVars, timeout, args, debug_enabled,
                 main_ret, flash_size, retry_cnt, progVars, id_attempts,
                 ident_ok, dma_attempts, dma_acked, erase_issued, desc_written,
                 bursts, idle_first, core_failed>>

\* cc2530_gpio_deinit: one pass of its loop; it returns at the first failure.
\* main then returns ret.
gpio_deinit_step ==
  /\ pc = "gpio_deinit"
  /\ LET pin == gpios[gpio_i + 1]
     IN  \E io \in Env({"ok", "set_direction", "unexport"}, {"ok"}) :
           /\ gpio_dir' = IF io = "set_direction" THEN gpio_dir
                          ELSE [gpio_dir EXCEPT ![pin] = "in"]
           /\ gpio_exported' = IF io = "ok" THEN gpio_exported \ {pin}
                               ELSE gpio_exported
           /\ IF io = "ok"
                THEN /\ gpio_i' = gpio_i + 1
                     /\ pc' = IF gpio_i + 1 < Len(gpios) THEN "gpio_deinit"
                              ELSE "exited"
                ELSE /\ gpio_i' = gpio_i
                     /\ pc' = "exited"
  /\ UNCHANGED <<commands, callVars, timeout, args, debug_enabled, session,
                 main_ret, flash_size, retry_cnt, progVars, histVars>>


(***************************************************************************)
(* cc2530_do_program                                                       *)
(*                                                                         *)
(* timeout, retry_cnt and result_bit are the locals of the function that   *)
(* is running; when a function returns its locals are gone, and the        *)
(* variables that held them are set to fixed values.                       *)
(***************************************************************************)
\* What no step of cc2530_do_program and cc2530_program_flash changes.
stillVars == <<gpioVars, callVars, args, flash_size, gpio_i, id_attempts,
               ident_ok>>

\* if (cc2530_do_program(cmd, fwsize, do_readback)) { ...; ret = -1; }
\* and on to out_free and out.
DoProgramReturns(r) ==
  /\ main_ret' = IF r # 0 THEN 0 - 1 ELSE main_ret
  /\ pc' = "out"
  /\ timeout' = 0
  /\ retry_cnt' = 0
  /\ blocks' = 0
  /\ i' = 0
  /\ max_speed' = 1
  /\ wait' = 0
  /\ result_bit' = FALSE
  /\ pf_ret' = 0
  /\ num_bytes_ok' = 0

\* The call sites with a failing cc2530_do_cmd, 0 when none fails.
Io2 == 0..2

Io3 == 0..3

\* while (retry_cnt--) { write_config 0x22; if (ret) return ret;
\*   if (result != config) { cc2530_enter_debug(); continue; } break; }
\* One step is one evaluation of the condition and, when it is true, one
\* pass through the body.
dp_dma ==
  /\ pc = "dp_dma"
  /\ IF retry_cnt # 0
       THEN /\ dma_attempts' = dma_attempts + 1
            /\ \E io \in Env({"ok", "fail"}, {"ok"}), echoed \in Env(BOOLEAN, {TRUE}) :
                 IF io = "fail"
                   THEN /\ DoProgramReturns(GPIO_ERR)
                        /\ Fail("io")
                        /\ UNCHANGED <<debug_enabled, session, dma_acked>>
                   ELSE /\ retry_cnt' = PostDecU32(retry_cnt)
                        /\ dma_acked' = echoed
                        /\ UNCHANGED <<main_ret, core_failed, timeout, progVars>>
                        /\ IF echoed
                             THEN /\ pc' = "dp_clk"
                                  /\ UNCHANGED <<debug_enabled, session>>
                             ELSE /\ pc' = "dp_dma"
                                  /\ EnterDebug
       ELSE /\ retry_cnt' = PostDecU32(retry_cnt)
            /\ pc' = "dp_clk"
            /\ UNCHANGED <<dma_attempts, dma_acked, main_ret, core_failed,
                           debug_enabled, session, timeout, progVars>>
  /\ flash_ptr' = flash_ptr
  /\ UNCHANGED <<commands, stillVars, erase_issued, desc_written, bursts,
                 idle_first, leave_calls>>

\* ret = cc2530_write_xdata_memory(cmd, X_CLKCONCMD, 0x80); if (ret) return ret;
dp_clk ==
  /\ pc = "dp_clk"
  /\ \E io \in Env(Io3, {0}) :
       LET r == cc2530_write_xdata_memory(commands, io)
       IN  /\ commands' = r.commands
           /\ IF r.ret # 0
                THEN /\ DoProgramReturns(r.ret)
                     /\ Fail("io")
                ELSE /\ pc' = "dp_clk_poll"
                     /\ UNCHANGED <<main_ret, core_failed, timeout, retry_cnt,
                                    blocks, i, max_speed, wait, result_bit,
                                    pf_ret, num_bytes_ok>>
  /\ UNCHANGED <<stillVars, debug_enabled, session, flash_ptr, dma_attempts,
                 dma_acked, erase_issued, desc_written, bursts, idle_first,
                 leave_calls>>

\* do { read X_CLKCONSTA; if (ret) return ret; } while ((result != 0x80) && timeout--);
\* The whole loop: k answers other than 0x80, or a read that fails.
dp_clk_poll ==
  /\ pc = "dp_clk_poll"
  /\ \E io \in Env(Io2, {0}), k \in Env(BusyRuns, {0}) :
       LET r == cc2530_read_xdata_memory(commands, io)
           t == DoWhile(k, timeout)
       IN  /\ commands' = r.commands
           /\ IF r.ret # 0
                THEN /\ DoProgramReturns(r.ret)
                     /\ Fail("io")
                ELSE /\ result_bit' = t.result_bit
                     /\ timeout' = t.timeout
                     /\ pc' = "dp_clk_check"
                     /\ UNCHANGED <<main_ret, core_failed, retry_cnt, blocks,
                                    i, max_speed, wait, pf_ret, num_bytes_ok>>
  /\ UNCHANGED <<stillVars, debug_enabled, session, flash_ptr, dma_attempts,
                 dma_acked, erase_issued, desc_written, bursts, idle_first,
                 leave_calls>>

\* if (!timeout) { ...; return -1; }  and the call of cc2530_chip_erase,
\* whose own timeout starts at DEFAULT_TIMEOUT (cc2530_do_program does not
\* read its timeout again).
dp_clk_check ==
  /\ pc = "dp_clk_check"
  /\ IF timeout = 0
       THEN /\ DoProgramReturns(0 - 1)
            /\ Fail("clock_timeout")
       ELSE /\ pc' = "erase_cmd"
            /\ timeout' = DEFAULT_TIMEOUT
            /\ result_bit' = FALSE
            /\ UNCHANGED <<main_ret, core_failed, retry_cnt, blocks, i,
                           max_speed, wait, pf_ret, num_bytes_ok>>
  /\ UNCHANGED <<commands, stillVars, debug_enabled, session, flash_ptr,
                 dma_attempts, dma_acked, erase_issued, desc_written, bursts,
                 idle_first, leave_calls>>

(***************************************************************************)
(* cc2530_chip_erase                                                       *)
(***************************************************************************)
\* cmd = find_cmd_by_name("erase"); ret = cc2530_do_cmd(cmd, NULL, &result);
\* The opcode has gone out unless the first gpio_set_direction failed.
erase_cmd ==
  /\ pc = "erase_cmd"
  /\ \E io \in Env({"ok", "set_output", "set_input"}, {"ok"}) :
       /\ erase_issued' = (io # "set_output")
       /\ IF io # "ok"
            THEN /\ DoProgramReturns(GPIO_ERR)
                 /\ Fail("io")
            ELSE /\ pc' = "erase_poll"
                 /\ UNCHANGED <<main_ret, core_failed, timeout, retry_cnt,
                                blocks, i, max_speed, wait, result_bit, pf_ret,
                                num_bytes_ok>>
  /\ UNCHANGED <<commands, stillVars, debug_enabled, session, flash_ptr,
                 dma_attempts, dma_acked, desc_written, bursts, idle_first,
                 leave_calls>>

\* do { read_status; if (ret) return ret; usleep(10); }
\* while ((result & CHIP_ERASE_BSY) && timeout--);
\* The whole loop: k busy answers, or a command that fails.
erase_poll ==
  /\ pc = "erase_poll"
  /\ \E io \in Env({"ok", "fail"}, {"ok"}), k \in Env(BusyRuns, {0}) :
       LET t == DoWhile(k, timeout)
       IN  IF io = "fail"
             THEN /\ DoProgramReturns(GPIO_ERR)
                  /\ Fail("io")
             ELSE /\ result_bit' = t.result_bit
                  /\ timeout' = t.timeout
                  /\ pc' = "erase_check"
                  /\ UNCHANGED <<main_ret, core_failed, retry_cnt, blocks, i,
                                 max_speed, wait, pf_ret, num_bytes_ok>>
  /\ UNCHANGED <<commands, stillVars, debug_enabled, session, flash_ptr,
                 dma_attempts, dma_acked, erase_issued, desc_written, bursts,
                 idle_first, leave_calls>>

\* if (!timeout) return -1; return 0;  then, in cc2530_do_program:
\* if (ret) return ret; init_flash_ptr(); blocks = DIV_ROUND_UP(...);
\* and the call of cc2530_program_flash with its locals max_speed and timeout.
erase_check ==
  /\ pc = "erase_check"
  /\ IF timeout = 0
       THEN /\ DoProgramReturns(0 - 1)
            /\ Fail("erase_timeout")
            /\ UNCHANGED flash_ptr
       ELSE /\ pc' = "pf_desc"
            /\ flash_ptr' = 0
            /\ blocks' = DIV_ROUND_UP(args.fwsize, PROG_BLOCK_SIZE) % 65536
            /\ max_speed' = 1
            /\ timeout' = DEFAULT_TIMEOUT
            /\ result_bit' = FALSE
            /\ UNCHANGED <<main_ret, core_failed, retry_cnt, i, wait, pf_ret,
                           num_bytes_ok>>
  /\ UNCHANGED <<commands, stillVars, debug_enabled, session, dma_attempts,
                 dma_acked, erase_issued, desc_written, bursts, idle_first,
                 leave_calls>>

(***************************************************************************)
(* cc2530_program_flash                                                    *)
(***************************************************************************)
\* A return of cc2530_program_flash: its int goes through uint8_t.
ProgramFlashReturns(r) ==
  /\ pf_ret' = ToU8(r)
  /\ pc' = "dp_after"
  /\ timeout' = 0
  /\ i' = 0
  /\ max_speed' = 1
  /\ wait' = 0
  /\ result_bit' = FALSE

\* What a step of cc2530_program_flash leaves alone besides stillVars.
pfStill == <<debug_enabled, session, main_ret, retry_cnt, blocks,
             num_bytes_ok, dma_attempts, dma_acked, erase_issued, leave_calls>>

\* One debug-to-buffer channel for every block.
dbg_arm_buf0(n) == CH_DBG_TO_BUF0

\* The DMA channels of block n: `if ((i & 0x0001) == 0) ... else ...'.
dbg_arm(n) == IF n % 2 = 0 THEN CH_DBG_TO_BUF0 ELSE CH_DBG_TO_BUF1

flash_arm(n) == IF n % 2 = 0 THEN CH_BUF0_TO_FLASH ELSE CH_BUF1_TO_FLASH

\* cc2530_write_xdata_memory_block(cmd, ADDR_DMA_DESC, dma_desc, 32);
pf_desc ==
  /\ pc = "pf_desc"
  /\ desc_written' = TRUE
  /\ \E io \in Env(Io3, {0}) :
       LET r == cc2530_write_xdata_memory_block(commands, io)
       IN  /\ commands' = r.commands
           /\ IF r.ret # 0
                THEN /\ ProgramFlashReturns(r.ret)
                     /\ Fail("io")
                ELSE /\ pc' = "pf_setup"
                     /\ UNCHANGED <<pf_ret, core_failed, timeout, i, max_speed,
                                    wait, result_bit>>
  /\ UNCHANGED <<stillVars, pfStill, flash_ptr, bursts, idle_first>>

\* X_DMA1CFGH, X_DMA1CFGL, FADDRH, FADDRL: four cc2530_write_xdata_memory
\* calls, each returning at its failure; then `for (i = 0; ...'.
pf_setup ==
  /\ pc = "pf_setup"
  /\ \E io \in Env(Io3, {0}) :
       LET r == cc2530_write_xdata_memory(commands, io)
       IN  /\ commands' = r.commands
           /\ IF r.ret # 0
                THEN /\ ProgramFlashReturns(r.ret)
                     /\ Fail("io")
                ELSE /\ pc' = "pf_loop"
                     /\ i' = 0
                     /\ UNCHANGED <<pf_ret, core_failed, timeout, max_speed,
                                    wait, result_bit>>
  /\ UNCHANGED <<stillVars, pfStill, flash_ptr, desc_written, bursts,
                 idle_first>>

\* The loop condition i < num_buffers and, inside the loop,
\* cc2530_write_xdata_memory(cmd, X_DMAARM, dbg_arm).  After the loop,
\* timeout = DEFAULT_TIMEOUT.
pf_loop ==
  /\ pc = "pf_loop"
  /\ IF i < blocks
       THEN \E io \in Env(Io3, {0}) :
              LET r == cc2530_write_xdata_memory(commands, io)
              IN  /\ commands' = r.commands
                  /\ IF r.ret # 0
                       THEN /\ ProgramFlashReturns(r.ret)
                            /\ Fail("io")
                            /\ UNCHANGED bursts
                       ELSE /\ pc' = "pf_burst"
                            /\ bursts' = Append(bursts,
                                 Event("dbg_arm", dbg_arm(i), 0, <<>>))
                            /\ UNCHANGED <<pf_ret, core_failed, timeout, i,
                                           max_speed, wait, result_bit>>
       ELSE /\ pc' = "pf_final_poll"
            /\ timeout' = DEFAULT_TIMEOUT
            /\ UNCHANGED <<commands, pf_ret, core_failed, i, max_speed, wait,
                           result_bit, bursts>>
  /\ UNCHANGED <<stillVars, pfStill, flash_ptr, desc_written, idle_first>>

\* cc2530_burst_write(); its return value is not looked at.  Unless the
\* first gpio_set_direction fails, the header and PROG_BLOCK_SIZE bytes
\* taken through get_next_flash_byte() go out.  Then `wait = 0'.
pf_burst ==
  /\ pc = "pf_burst"
  /\ \E io \in Env({"ok", "set_output", "later"}, {"ok"}) :
       IF io = "set_output"
         THEN UNCHANGED <<flash_ptr, bursts>>
         ELSE /\ flash_ptr' = (flash_ptr + PROG_BLOCK_SIZE) % 65536
              /\ bursts' = Append(bursts,
                   Event("burst", 0, flash_ptr, BurstHeader))
  /\ wait' = 0
  /\ pc' = "pf_poll"
  /\ UNCHANGED <<commands, stillVars, pfStill, timeout, i, max_speed,
                 result_bit, pf_ret, desc_written, idle_first, core_failed>>

\* do { read FCTL; if (ret) return ret; wait = 1; }
\* while ((result & FCTL_BUSY) && timeout--);
\* The whole loop: k busy answers, or a read that fails.  timeout is the
\* one set before the first block.
pf_poll ==
  /\ pc = "pf_poll"
  /\ \E io \in Env(Io2, {0}), k \in Env(BusyRuns, {0}) :
       LET r == cc2530_read_xdata_memory(commands, io)
           t == DoWhile(k, timeout)
       IN  /\ commands' = r.commands
           /\ IF r.ret # 0
                THEN /\ ProgramFlashReturns(r.ret)
                     /\ Fail("io")
                     /\ UNCHANGED idle_first
                ELSE /\ result_bit' = t.result_bit
                     /\ wait' = 1
                     /\ timeout' = t.timeout
                     /\ pc' = "pf_check"
                     /\ idle_first' = (idle_first \/ (i > 0 /\ k = 0))
                     /\ UNCHANGED <<pf_ret, core_failed, i, max_speed>>
  /\ UNCHANGED <<stillVars, pfStill, flash_ptr, desc_written, bursts>>

\* if (!timeout) return -1;  if (i > 0 && wait == 0) max_speed = 0;
pf_check ==
  /\ pc = "pf_check"
  /\ IF timeout = 0
       THEN /\ ProgramFlashReturns(0 - 1)
            /\ Fail("program_timeout")
       ELSE /\ max_speed' = IF i > 0 /\ wait = 0 THEN 0 ELSE max_speed
            /\ pc' = "pf_arm_flash"
            /\ UNCHANGED <<pf_ret, core_failed, timeout, i, wait, result_bit>>
  /\ UNCHANGED <<commands, stillVars, pfStill, flash_ptr, desc_written,
                 bursts, idle_first>>

\* cc2530_write_xdata_memory(cmd, X_DMAARM, flash_arm) and
\* cc2530_write_xdata_memory(cmd, FCTL, 0x06), each returning at its
\* failure; then i++.
pf_arm_flash ==
  /\ pc = "pf_arm_flash"
  /\ \E io \in Env(Io3, {0}) :
       LET r == cc2530_write_xdata_memory(commands, io)
       IN  /\ commands' = r.commands
           /\ IF r.ret # 0
                THEN /\ ProgramFlashReturns(r.ret)
                     /\ Fail("io")
                     /\ UNCHANGED bursts
                ELSE /\ pc' = "pf_loop"
                     /\ bursts' = Append(bursts,
                          Event("flash", flash_arm(i), 0, <<>>))
                     /\ i' = i + 1
                     /\ UNCHANGED <<pf_ret, core_failed, timeout, max_speed,
                                    wait, result_bit>>
  /\ UNCHANGED <<stillVars, pfStill, flash_ptr, desc_written, idle_first>>

\* do { read FCTL; if (ret) return ret; } while ((result & FCTL_BUSY) && timeout--);
\* The whole loop: k busy answers, or a read that fails.
pf_final_poll ==
  /\ pc = "pf_final_poll"
  /\ \E io \in Env(Io2, {0}), k \in Env(BusyRuns, {0}) :
       LET r == cc2530_read_xdata_memory(commands, io)
           t == DoWhile(k, timeout)
       IN  /\ commands' = r.commands
           /\ IF r.ret # 0
                THEN /\ ProgramFlashReturns(r.ret)
                     /\ Fail("io")
                ELSE /\ result_bit' = t.result_bit
                     /\ timeout' = t.timeout
                     /\ pc' = "pf_final_check"
                     /\ UNCHANGED <<pf_ret, core_failed, i, max_speed, wait>>
  /\ UNCHANGED <<stillVars, pfStill, flash_ptr, desc_written, bursts,
                 idle_first>>

\* if (!timeout) return -1;  return max_speed;
pf_final_check ==
  /\ pc = "pf_final_check"
  /\ IF timeout = 0
       THEN /\ ProgramFlashReturns(0 - 1)
            /\ Fail("program_timeout")
       ELSE /\ ProgramFlashReturns(max_speed)
            /\ UNCHANGED core_failed
  /\ UNCHANGED <<commands, stillVars, pfStill, flash_ptr, desc_written,
                 bursts, idle_first>>

(***************************************************************************)
(* cc2530_do_program, after cc2530_program_flash                           *)
(***************************************************************************)
\* The size of a bank of the flash as cc2530_flash_verify reads it.
BankSize == 32 * 1024

\* A verification that reads bank 0 only.
flash_verify_bank0(bank, addr, max_addr) ==
  LET n == IF max_addr - addr < BankSize THEN max_addr - addr ELSE BankSize
  IN  [ret |-> addr + n,
       banks |-> <<[op |-> "bank", i |-> bank, ch |-> n,
                    first |-> addr % 65536, hdr |-> <<>>, busy |-> FALSE]>>]

\* `for (bank = 0; bank < 8; bank++)' of cc2530_flash_verify from `bank' on,
\* no command failing: X_MEMCTR = bank and DPTR = 0x8000, then
\* `for (i = 0; i < 32*1024; i++)', which returns addr when addr == max_addr
\* and otherwise reads a byte, takes the next image byte, prints the two
\* when they differ, and counts addr up.  What it returns, and for every
\* bank selected an entry of the log: the bank (i), the image cursor at its
\* selection (first) and the bytes compared in it (ch).
RECURSIVE flash_verify_banks(_, _, _)
flash_verify_banks(bank, addr, max_addr) ==
  IF bank >= 8 THEN [ret |-> addr, banks |-> <<>>]
  ELSE LET left == max_addr - addr
           n    == IF left >= 0 /\ left < BankSize THEN left ELSE BankSize
           e    == [op |-> "bank", i |-> bank, ch |-> n,
                    first |-> addr % 65536, hdr |-> <<>>, busy |-> FALSE]
       IN  IF n < BankSize
             THEN [ret |-> addr + n, banks |-> <<e>>]
             ELSE LET rest == flash_verify_banks(bank + 1, addr + n, max_addr)
                  IN  [ret |-> rest.ret, banks |-> <<e>> \o rest.banks]

\* cc2530_flash_verify(cmd, max_addr): the number of bytes compared, or ret
\* through uint32_t when a command failed (io), and the banks it selected.
cc2530_flash_verify(max_addr, io) ==
  IF io # 0 THEN [ret |-> GPIO_ERR, banks |-> <<>>]
  ELSE flash_verify_banks(0, 0, max_addr)

\* The burst writes sent so far.
BurstWrites == SelectSeq(bursts, LAMBDA e : e.op = "burst")

\* cc2530_flash_verify compares block b of the flash, which holds the
\* payload of the burst write number b, with the image bytes that
\* get_next_flash_byte() gives from a reset flash_ptr: the number of blocks
\* it prints mismatches for (image bytes at different offsets differ).
flash_verify_mismatches ==
  Cardinality({b \in 0..(blocks - 1) :
                 \/ b + 1 > Len(BurstWrites)
                 \/ BurstWrites[b + 1].first # (PROG_BLOCK_SIZE * b) % 65536})

\* ret = cc2530_program_flash(cmd, blocks); if (ret && verbose) printf(...);
\* if (!do_readback) goto cc2530_reset_mcu; init_flash_ptr();
\* num_bytes_ok = cc2530_flash_verify(cmd, blocks * PROG_BLOCK_SIZE);
dp_after ==
  /\ pc = "dp_after"
  /\ IF ~args.do_readback
       THEN UNCHANGED <<commands, num_bytes_ok, flash_ptr, core_failed, bursts>>
       ELSE \E io \in Env(Io3, {0}) :
              LET v == cc2530_flash_verify(blocks * PROG_BLOCK_SIZE, io)
                  n == v.ret
              IN  /\ num_bytes_ok' = n
                  /\ bursts' = bursts \o v.banks
                  /\ flash_ptr' = IF io # 0 THEN 0 ELSE n % 65536
                  /\ commands' = cc2530_write_xdata_memory(commands, io).commands
                  /\ IF n # blocks * PROG_BLOCK_SIZE
                       THEN Fail("verify")
                       ELSE UNCHANGED core_failed
  /\ pc' = "dp_reset"
  /\ UNCHANGED <<stillVars, debug_enabled, session, main_ret, retry_cnt,
                 timeout, blocks, i, max_speed, wait, result_bit, pf_ret,
                 dma_attempts, dma_acked, erase_issued, desc_written,
                 idle_first, leave_calls>>

\* cc2530_reset_mcu: cc2530_leave_debug(); return 0;
dp_reset ==
  /\ pc = "dp_reset"
  /\ LeaveDebug
  /\ DoProgramReturns(0)
  /\ UNCHANGED <<commands, stillVars, debug_enabled, flash_ptr, dma_attempts,
                 dma_acked, erase_issued, desc_written, bursts, idle_first,
                 core_failed>>

Next ==
  \/ gpio_init_step
  \/ main_enter_debug
  \/ main_dispatch
  \/ main_identify_only
  \/ main_oneshot
  \/ main_id_loop
  \/ main_id_check
  \/ main_size_check
  \/ main_load
  \/ dp_dma
  \/ dp_clk
  \/ dp_clk_poll
  \/ dp_clk_check
  \/ erase_cmd
  \/ erase_poll
  \/ erase_check
  \/ pf_desc
  \/ pf_setup
  \/ pf_loop
  \/ pf_burst
  \/ pf_poll
  \/ pf_check
  \/ pf_arm_flash
  \/ pf_final_poll
  \/ pf_final_check
  \/ dp_after
  \/ dp_reset
  \/ main_out
  \/ gpio_deinit_step

Spec == Init /\ [][Next]_vars

(***************************************************************************)
(* Runs of main, and single calls of cc2530_do_cmd and of                  *)
(* cc2530_burst_write, that are not cut off: a step is taken whenever one  *)
(* can be.  The program is sequential, so weak fairness of the next step   *)
(* is all its scheduling gives.                                            *)
(***************************************************************************)
\* The commands passed in these calls: one without and one with
\* parameter bytes, and no entry.
TermCmdArgs ==
  {commands[1], [commands[DBG_INST_IDX] EXCEPT !.in = 3], NULL}

\* The runs: the images of at most one block, with every failure and every
\* answer of the target, and the images of 2, 65 and 256 blocks.
InitTerm ==
  \/ /\ Init
     /\ args.env = "ideal" \/ args.fwsize <= PROG_BLOCK_SIZE
  \/ InitCmd

NextTerm ==
  \/ Next
  \/ /\ pc = "call"
     /\ \/ cmd_pc = "idle" /\ \E c \in TermCmdArgs : do_cmd_call(c)
        \/ do_cmd_set_output
        \/ do_cmd_send
        \/ do_cmd_set_input
        \/ do_cmd_sample
        \/ do_cmd_poll
        \/ do_cmd_check
        \/ do_cmd_read
        \/ do_cmd_exit
        \/ cmd_pc = "idle" /\ burst_write_call
        \/ burst_write_set_output
        \/ burst_write_send
        \/ burst_write_set_input
        \/ burst_write_sample
        \/ burst_write_poll
        \/ burst_write_check
        \/ burst_write_read

SpecTerm == InitTerm /\ [][NextTerm]_vars /\ WF_vars(NextTerm)



(***************************************************************************)
(* Properties of one call of cc2530_do_cmd, stated over SpecCmd            *)
(***************************************************************************)
\* C1: if the data line samples high at every check of the readiness poll,
\* the poll makes exactly DEFAULT_TIMEOUT passes, the command returns a
\* failure and no response byte is clocked in.  (val still high when the
\* call is over and at least one pass made: every sample was high.)
C1_PollTimeoutReported ==
  (cmd_pc = "done" /\ polls > 0 /\ val)
    => (polls = DEFAULT_TIMEOUT /\ ret # 0 /\ answered = 0 /\ ~outbuf_set)

\* C2: whenever cc2530_do_cmd returns 0, exactly cmd->out response bytes
\* were clocked in and copied to the caller's buffer.
C2_SuccessHasRead ==
  (cmd_pc = "done" /\ ret = 0) => (outbuf_set /\ answered = cmd.out)

(***************************************************************************)
(* Properties of a run of main, stated over Spec                           *)
(***************************************************************************)
\* C3: ERASE is issued only after a chip identification has succeeded in
\* the run and only if the image is no longer than the flash size that
\* identification reported.
C3_EraseOnlyAfterIdentify ==
  erase_issued => (ident_ok /\ args.fwsize <= flash_size)

\* C4: when a poll of FCTL in cc2530_program_flash, after a block or after
\* the last block, is left with the busy flag still set, the function
\* returns the timeout value (-1, 255 in its uint8_t), and cc2530_do_program
\* does not return success after cc2530_program_flash has reported a
\* timeout.
C4_ProgramTimeoutFails ==
  [][ /\ (pc \in {"pf_check", "pf_final_check"} /\ result_bit)
          => (pc' = "dp_after" /\ pf_ret' = 255)
      /\ (pc = "dp_reset" /\ core_failed = "program_timeout")
          => (main_ret' # 0)
    ]_vars

\* C5: when every READ_STATUS answer within the retry budget has the
\* erase-busy bit set, cc2530_chip_erase fails and cc2530_do_program
\* returns a failure without starting cc2530_program_flash.
C5_EraseTimeoutFatal ==
  [][ (pc = "erase_check" /\ result_bit)
        => (pc' = "out" /\ main_ret' # 0 /\ ~desc_written' /\ bursts' = <<>>)
    ]_vars

\* C6: when the process ends after GPIO initialisation was started, debug
\* mode has been left and every GPIO line is an input and unexported.
C6_SessionReleasedOnExit ==
  pc = "exited"
    => /\ session = "Disconnected"
       /\ gpio_exported = {}
       /\ \A p \in {RST_GPIO, CCLK_GPIO, DATA_GPIO} : gpio_dir[p] = "in"

\* C7: the exit status is non-zero whenever identification, the size check,
\* the erase, the programming, the verification or a one-shot command
\* failed during the run.
C7_ExitStatusOnFailure ==
  (pc = "exited" /\ core_failed \in {"identify", "too_large", "erase_timeout",
                                     "program_timeout", "verify", "oneshot"})
    => main_ret # 0

\* C8: before programming the chip is identified at most 3 times; the run
\* reaches the size check only if an attempt succeeded, and it is given up
\* as an identification timeout only if no attempt succeeded.
C8_IdentifyRetry ==
  /\ id_attempts <= 3
  /\ pc = "size_check" => ident_ok
  /\ (pc = "out" /\ core_failed = "identify" /\ ~args.do_identify) => ~ident_ok

\* C9: the DMA-enable write is made at most 3 times, and the clock setup
\* (and so the erase and the programming) is reached only after an attempt
\* whose echo matched.
C9_DmaRetryExhausted ==
  /\ dma_attempts <= 3
  /\ pc \in {"dp_clk", "dp_clk_poll", "dp_clk_check", "erase_cmd"} => dma_acked

\* C10: when cc2530_program_flash returns its full-speed indicator, it is 0
\* if for some block i > 0 the first FCTL check after the burst write
\* showed not busy, and 1 otherwise.
C10_FullSpeedIndicator ==
  (pc = "dp_after" /\ pf_ret \in {0, 1}) => (pf_ret = 0 <=> idle_first)

C12_FlashSizeDecoded ==
  ident_ok => flash_size \in {32 * 1024, 64 * 1024, 128 * 1024, 256 * 1024}

\* C13: the command table is read-only: in every state each entry (name,
\* opcode, input byte count, output byte count) is as defined at startup.
C13_TableReadOnly == commands = cc2530_commands

\* C14: a GPIO operation that fails during a call of cc2530_do_cmd (a pin
\* direction change, a pin write in send_byte, a pin read or a clock write
\* in the readiness poll or in read_byte) makes the call return a failure.
C14_GpioFailurePropagated ==
  (cmd_pc = "done" /\ gpio_failed) => ret # 0

\* C15: after the lookup of a -c argument q, cmd is the entry of that name
\* when q is a name of the table; it is the first entry, in table order,
\* whose name starts with q when there is one; and it is no entry when no
\* name starts with q.
C15_LookupByPrefix ==
  (pc = "out" /\ args.command # NoCommand) =>
    LET q == args.command
        StartsWith(k) == /\ Len(q) <= Len(cc2530_commands[k].name)
                         /\ SubSeq(cc2530_commands[k].name, 1, Len(q)) = q
        Idx == 1..Len(cc2530_commands)
    IN  /\ \A k \in Idx : cc2530_commands[k].name = q => cmd = commands[k]
        /\ \A k \in Idx :
             (StartsWith(k) /\ \A j \in 1..(k - 1) : ~StartsWith(j))
               => cmd = commands[k]
        /\ (\A k \in Idx : ~StartsWith(k)) => cmd = NULL

C15_PrefixLookedUp ==
  /\ pc = "out"
  /\ args.command = <<"r","e","a","d">>
  /\ cmd = commands[3]
  /\ cmd.name = <<"r","e","a","d","_","c","o","n","f","i","g">>

\* C16: when debug_inst is issued with n parameter bytes, 0 <= n <= 15, the
\* first byte sent is 0x50 | n (80 + n: n fits the four low bits, which are
\* clear in 0x50) and exactly n parameter bytes follow; every burst write
\* sends the header 0x80 | (1024 / 256), 1024 % 256, whatever the offset of
\* its payload in the image.
C16_OpcodePacking ==
  /\ (/\ cmd_pc \in {"set_input", "sample", "poll", "check", "read",
                     "out_exit", "done"}
      /\ cmd # NULL
      /\ cmd.id = 80
      /\ ~(cmd_pc \in {"out_exit", "done"} /\ sent_opcode = 0 - 1))
       => (/\ cmd.in \in 0..15
           /\ sent_opcode = 80 + cmd.in
           /\ sent_params = cmd.in)
  /\ \A n \in 1..Len(bursts) :
       bursts[n].op = "burst" => bursts[n].hdr = <<128 + 4, 0>>

C16_PackedSent ==
  /\ cmd_pc = "done"
  /\ cmd # NULL
  /\ cmd.id = 80
  /\ cmd.in = 15
  /\ sent_opcode = 95
  /\ sent_params = 15
  /\ ret = 0
  /\ Len(bursts) = 2
  /\ bursts[2].op = "burst"
  /\ bursts[2].first = 1024
  /\ bursts[2].hdr = <<132, 0>>


(***************************************************************************)
(* Properties of send_byte and read_byte, stated over SpecBits             *)
(***************************************************************************)
\* C17: for every byte value, send_byte drives the bits of the byte on the
\* data line most-significant first, one per rising clock edge, in exactly 8
\* clock pulses, and leaves the clock low; read_byte, sampling that line
\* after each clock rise, assembles the byte that was sent, in exactly 8
\* clock pulses, and leaves the clock low.
C17_BitRoundTrip ==
  /\ bit_pc = "sent" =>
       /\ pulses = 8
       /\ cclk = 0
       /\ Len(line) = 8
       /\ byte = line[1] * 128 + line[2] * 64 + line[3] * 32 + line[4] * 16
                   + line[5] * 8 + line[6] * 4 + line[7] * 2 + line[8]
  /\ bit_pc = "done" =>
       /\ rx = byte
       /\ pulses = 8
       /\ cclk = 0

C17_RoundTripDone ==
  /\ bit_pc = "done"
  /\ byte = 163
  /\ line = <<1, 0, 1, 0, 0, 0, 1, 1>>
  /\ rx = 163


(***************************************************************************)
(* Properties of the programming loop, stated over Spec                    *)
(***************************************************************************)
\* C18: the channels armed for block i belong to buffer i mod 2: debug to
\* buffer is channel 0x02 and buffer to flash channel 0x08 for an even i,
\* 0x04 and 0x10 for an odd i; the channels armed for block i + 1 are never
\* those armed for block i (the arming of the same kind before it in the log,
\* at most three entries back).
C18_BufferParity ==
  \A n \in 1..Len(bursts) :
    LET e == bursts[n]
    IN  /\ e.op = "dbg_arm" => e.ch = (IF e.i % 2 = 0 THEN 2 ELSE 4)
        /\ e.op = "flash" => e.ch = (IF e.i % 2 = 0 THEN 8 ELSE 16)
        /\ \A m \in {k \in (n - 3)..(n - 1) : k >= 1} :
             (/\ e.op \in {"dbg_arm", "flash"}
              /\ bursts[m].op = e.op
              /\ bursts[m].i + 1 = e.i)
               => bursts[m].ch # e.ch

C18_TwoBlocksArmed ==
  /\ pc = "out"
  /\ \E n \in 1..Len(bursts) :
       bursts[n].op = "dbg_arm" /\ bursts[n].i = 0 /\ bursts[n].ch = 2
  /\ \E n \in 1..Len(bursts) :
       bursts[n].op = "flash" /\ bursts[n].i = 0 /\ bursts[n].ch = 8
  /\ \E n \in 1..Len(bursts) :
       bursts[n].op = "dbg_arm" /\ bursts[n].i = 1 /\ bursts[n].ch = 4
  /\ \E n \in 1..Len(bursts) :
       bursts[n].op = "flash" /\ bursts[n].i = 1 /\ bursts[n].ch = 16


\* C19: the buffer-to-flash channel of a block is armed and FCTL = 0x06
\* written only after the block's burst write has gone out and the last read
\* of FCTL has shown the busy flag clear.
C19_FlashAfterBurstAndIdle ==
  \A n \in 1..Len(bursts) :
    bursts[n].op = "flash" =>
      /\ ~bursts[n].busy
      /\ \E m \in {k \in (n - 3)..(n - 1) : k >= 1} :
           bursts[m].op = "burst" /\ bursts[m].i = bursts[n].i


\* C20: in a run where every command succeeds and no poll waits, the
\* payload burst-written for block i starts at image offset 1024 * i (and
\* runs to 1024 * i + 1023): the firmware cursor never wraps or rewinds, for
\* images up to 256 KiB.
C20_CursorMonotonic ==
  args.env = "ideal" =>
    \A n \in 1..Len(bursts) :
      bursts[n].op = "burst" => bursts[n].first = 1024 * bursts[n].i


(***************************************************************************)
(* Properties of the data line, stated over SpecCmd                        *)
(***************************************************************************)
\* C21: in cc2530_do_cmd and cc2530_burst_write the data line is an output
\* whenever bytes are about to be clocked out on it, and an input whenever
\* it is about to be sampled (before the poll, in the poll, and for the
\* answer).
C21_DirectionLockstep ==
  /\ cmd_pc \in {"send", "bw_send"} => gpio_dir[DATA_GPIO] = "out"
  /\ cmd_pc \in {"sample", "poll", "read", "bw_sample", "bw_poll", "bw_read"}
       => gpio_dir[DATA_GPIO] = "in"


(***************************************************************************)
(* Properties of the verification, stated over Spec                        *)
(***************************************************************************)
\* C22: a verification in which no command failed started with the image
\* cursor at 0, selected banks 0, 1, 2, ... in this order, each before the
\* bytes of the bank were compared, compared a full bank of 32 KiB in every
\* bank but the last it selected, compared in all exactly as many bytes as
\* were to be programmed (at most 8 banks of 32 KiB) whether or not bytes
\* differed, and returned that count.
C22_VerifyWalk ==
  (pc = "dp_reset" /\ args.do_readback /\ num_bytes_ok # 0 - 1) =>
    LET total == blocks * 1024
        B     == SelectSeq(bursts, LAMBDA e : e.op = "bank")
    IN  /\ num_bytes_ok = (IF total < 262144 THEN total ELSE 262144)
        /\ Len(B) >= 1
        /\ Len(B) <= 8
        /\ B[1].first = 0
        /\ \A k \in 1..Len(B) :
             /\ B[k].i = k - 1
             /\ k < Len(B) => B[k].ch = 32768
        /\ 32768 * (Len(B) - 1) + B[Len(B)].ch = num_bytes_ok
        /\ \A n \in 1..Len(bursts) :
             bursts[n].op = "bank" =>
               \A m \in n..Len(bursts) : bursts[m].op = "bank"

C22_VerifiedMidBank ==
  /\ pc = "dp_reset"
  /\ args.do_readback
  /\ blocks = 65
  /\ num_bytes_ok = 66560
  /\ \E n \in 1..Len(bursts) :
       bursts[n].op = "bank" /\ bursts[n].i = 2 /\ bursts[n].ch = 1024


(***************************************************************************)
(* Properties of the debug session, stated over Spec                       *)
(***************************************************************************)
\* C23: commands go to the target only while the session is Active, and
\* cc2530_leave_debug is called only while it is Active: never a second
\* time without a cc2530_enter_debug in between (looked at in the runs
\* where every command succeeds and no poll waits).
C23_SessionPhases ==
  [][ /\ pc \in {"identify_only", "id_loop", "oneshot", "dp_dma", "dp_clk",
                 "dp_clk_poll", "erase_cmd", "erase_poll", "pf_desc",
                 "pf_setup", "pf_loop", "pf_burst", "pf_poll", "pf_arm_flash",
                 "pf_final_poll", "dp_after"}
        => session = "Active"
      /\ (args.env = "ideal" /\ leave_calls' # leave_calls)
           => session = "Active"
    ]_vars


C25_BudgetPerBlock ==
  [][ (pc = "pf_poll" /\ pc' = "pf_check" /\ timeout' = 0)
        => timeout - timeout' >= 1000
    ]_vars


\* C26: every byte taken through the image cursor lies inside the loaded
\* image: a burst write takes the 1024 bytes from its first offset on, and
\* a verification after a programming without failure takes as many bytes
\* as it compares, none at an index at or past the length of the file.
C26_ImageReadsInBounds ==
  /\ \A n \in 1..Len(bursts) :
       bursts[n].op = "burst" => bursts[n].first + 1024 <= args.fwsize
  /\ (/\ pc = "dp_reset"
      /\ args.do_readback
      /\ core_failed = "none"
      /\ num_bytes_ok # 0 - 1)
       => num_bytes_ok <= args.fwsize

=============================================================================
